---- MODULE Spec2Model ----
(***************************************************************************)
(* A model of three parts of discoursegraphs:                              *)
(*   - readwrite/brackets.py: gen_bracket_mappings, gen_closing_string,    *)
(*     gen_bracketed_output (SpecBrackets);                                *)
(*   - readwrite/ptb.py: PTBDocumentGraph construction (SpecPTB);          *)
(*   - util.py: TokenMapper and get_segment_token_offsets (SpecOffsets).   *)
(* Every specification uses the same variables; the variables of the parts *)
(* a specification does not exercise stay at their idle values.            *)
(***************************************************************************)
EXTENDS Integers, Sequences, FiniteSets, TLC

VARIABLES
    pc,                   \* position of the running operation
    tokens,               \* docgraph.tokens / self.tokens: list of token node ids
    span,                 \* docgraph.node[markable][ns+':span'], per markable
    pointing_chains,      \* what dg.get_pointing_chains(docgraph) returns
    opening,              \* brackets.py: opening (defaultdict(list))
    closing,              \* brackets.py: closing (defaultdict(list))
    markable2chain,       \* brackets.py: markable2chain
    ret_str,              \* gen_bracketed_output: ret_str, as a list of lexemes
    stack,                \* gen_bracketed_output: stack
    token_index,          \* position of the for loop over docgraph.tokens
    closing_markable_ids, \* gen_closing_string: closing_markable_ids of the last call
    document,             \* ptb.py: the trees document.parsed_sents() yields
    limit,                \* ptb.py: the limit parameter, <<>> for None, <<n>> for n
    node,                 \* ptb.py: self.node, node id -> attributes
    edges,                \* ptb.py: the edges added, in the order of add_edge
    sentences,            \* ptb.py: self.sentences
    node_id,              \* ptb.py: self._node_id
    frames,               \* ptb.py: the active calls of _parse_sentencetree
    sent_index,           \* ptb.py: position of the for loop over the sentences
    segment_token_list,   \* util.py: argument of get_segment_token_offsets
    id2index,             \* util.py: TokenMapper.id2index
    index2id,             \* util.py: TokenMapper.index2id
    map_index,            \* util.py: position of the loop of TokenMapper.__init__
    offsets               \* util.py: what get_segment_token_offsets returned

bvars == <<span, pointing_chains, opening, closing, markable2chain, ret_str,
           stack, token_index, closing_markable_ids>>

pvars == <<document, limit, node, edges, sentences, node_id, frames, sent_index>>

ovars == <<segment_token_list, id2index, index2id, map_index, offsets>>

vars == <<pc, tokens, bvars, pvars, ovars>>

(***************************************************************************)
(* Bounds.                                                                 *)
(***************************************************************************)
MaxTokens == 2       \* length of docgraph.tokens in SpecBrackets
MaxMarkables == 2    \* number of markables in SpecBrackets
MaxNodes == 5        \* tree nodes and leaves of the input document in SpecPTB
MaxLimit == 2        \* largest limit passed to PTBDocumentGraph in SpecPTB
MaxSegLen == 3       \* length of segment_token_list in SpecOffsets

(***************************************************************************)
(* Generic helpers.                                                        *)
(***************************************************************************)
Range(s) == {s[k] : k \in 1..Len(s)}

Last(s) == s[Len(s)]

\* sequences over S without repetition, of length 1..n
InjSeqs(S, n) ==
    UNION {{s \in [1..k -> S] : \A a, b \in 1..k : a # b => s[a] # s[b]} : k \in 1..n}

\* position (1-based) of x in the sequence s, 0 if absent
PosIn(s, x) == IF x \in Range(s) THEN CHOOSE k \in 1..Len(s) : s[k] = x ELSE 0

RECURSIVE Flatten(_)
Flatten(ss) == IF ss = <<>> THEN <<>> ELSE Head(ss) \o Flatten(Tail(ss))

\* the variables of ptb.py while no PTBDocumentGraph is under construction
IdlePTB ==
    /\ document = <<>>
    /\ limit = <<>>
    /\ node = <<>>
    /\ edges = <<>>
    /\ sentences = <<>>
    /\ node_id = 0
    /\ frames = <<>>
    /\ sent_index = 0

\* the variables of util.py while no offsets are computed
IdleOffsets ==
    /\ segment_token_list = <<>>
    /\ id2index = <<>>
    /\ index2id = <<>>
    /\ map_index = 0
    /\ offsets = <<>>

(***************************************************************************)
(* brackets.py                                                             *)
(*                                                                         *)
(* Token ids are opaque dictionary keys in brackets.py, so the document's  *)
(* tokens are named 1..MaxTokens in document order; token id 0 is an id    *)
(* that a span may name although it is not in docgraph.tokens.  A markable *)
(* id n stands for the string "markable_n".  SpecScan renders documents of *)
(* one token more, whose spans run forward over document tokens only.      *)
(***************************************************************************)
TokenIds == 0..(MaxTokens + 1)

DocTokens == [k \in 1..MaxTokens |-> k]

\* the span attribute of a markable: a non-empty list of distinct token ids,
\* in the order the annotation stores them
Spans == InjSeqs(0..MaxTokens, MaxTokens)

\* mmax2.spanstring2tokens: the token ids the span attribute resolves to, in
\* the order the attribute lists them
spanstring2tokens(span_attr) == span_attr

\* util.natural_sort_key of "markable_n": re.split on the digits gives
\* ['markable_', 'n', ''], and the digit run becomes an int
natural_sort_key(m) == <<"markable_", m, "">>

\* comparison of two such keys as Python compares lists (the text parts agree)
KeyLess(k1, k2) == k1[1] = k2[1] /\ k1[2] < k2[2]

\* sorted(itertools.chain(*pointing_chains), key=natural_sort_key)
SortedMarkables(chains) ==
    SortSeq(Flatten(chains),
            LAMBDA a, b : KeyLess(natural_sort_key(a), natural_sort_key(b)))

\* markable2chain[markable] = chain[0] for every markable of every chain
Markable2Chain(chains) ==
    [m \in Range(Flatten(chains)) |->
        LET c == CHOOSE k \in 1..Len(chains) : m \in Range(chains[k])
        IN  chains[c][1]]

\* opening[span_tokens[0]].append(markable), markables in sorted order;
\* a token without an entry is mapped to the empty list
OpeningMap(markables, sp) ==
    [t \in TokenIds |->
        SelectSeq(markables, LAMBDA m : spanstring2tokens(sp[m])[1] = t)]

\* closing[span_tokens[-1]].append(markable)
ClosingMap(markables, sp) ==
    [t \in TokenIds |->
        SelectSeq(markables, LAMBDA m : Last(spanstring2tokens(sp[m])) = t)]

\* `token_id in opening` on a defaultdict: the key exists once a markable
\* was appended to it
InMap(d, t) == d[t] # <<>>

Lex(kind, arg) == [kind |-> kind, arg |-> arg]

\* a single u'[', whatever the number of markables that open
OpeningStrOne(n) == <<Lex("[", 0)>>

\* u'[' * num_of_opening_brackets
OpeningStr(n) == [k \in 1..n |-> Lex("[", 0)]

\* [stack.pop() for i in range(num_of_closing_brackets)]
PoppedIds(stk, n) == [k \in 1..n |-> stk[Len(stk) - k + 1]]

\* u''.join(u']_{{{}}}'.format(markable2chain[closing_id]) for closing_id in ...)
ClosingStr(ids, m2c) == [k \in 1..Len(ids) |-> Lex("]_", m2c[ids[k]])]

\* gen_closing_string reading the top of the stack without removing it
gen_closing_string_peek(closing_dict, m2c, token_id, stk) ==
    LET n == Len(closing_dict[token_id])
    IN  IF n > Len(stk)
        THEN [ok |-> FALSE, ids |-> <<>>, str |-> <<>>, stack |-> <<>>]
        ELSE [ok |-> TRUE,
              ids |-> PoppedIds(stk, n),
              str |-> ClosingStr(PoppedIds(stk, n), m2c),
              stack |-> stk]

\* gen_closing_string: pops len(closing_dict[token_id]) markables; a pop from an
\* empty list raises IndexError
gen_closing_string(closing_dict, m2c, token_id, stk) ==
    LET n == Len(closing_dict[token_id])
    IN  IF n > Len(stk)
        THEN [ok |-> FALSE, ids |-> <<>>, str |-> <<>>, stack |-> <<>>]
        ELSE [ok |-> TRUE,
              ids |-> PoppedIds(stk, n),
              str |-> ClosingStr(PoppedIds(stk, n), m2c),
              stack |-> SubSeq(stk, 1, Len(stk) - n)]

\* the chains: a partition of the markables 1..m, each chain sorted, listed by
\* their first markable
ChainLists(m) ==
    LET maps == {f \in [1..m -> 1..m] : \A x \in 1..m : f[x] <= x /\ f[f[x]] = f[x]}
        chain(f, c) == SortSeq(SelectSeq([k \in 1..m |-> k], LAMBDA x : f[x] = c),
                               LAMBDA a, b : a < b)
        heads(f) == SelectSeq([k \in 1..m |-> k], LAMBDA x : f[x] = x)
    IN  {[k \in 1..Len(heads(f)) |-> chain(f, heads(f)[k])] : f \in maps}

InitBrackets ==
    /\ pc = "start"
    /\ tokens = DocTokens
    /\ \E m \in 0..MaxMarkables :
          /\ span \in [1..m -> Spans]
          /\ pointing_chains \in ChainLists(m)
    /\ opening = [t \in TokenIds |-> <<>>]
    /\ closing = [t \in TokenIds |-> <<>>]
    /\ markable2chain = <<>>
    /\ ret_str = <<>>
    /\ stack = <<>>
    /\ token_index = 0
    /\ closing_markable_ids = <<>>
    /\ IdlePTB
    /\ IdleOffsets

\* gen_bracketed_output up to the for loop: gen_bracket_mappings, ret_str, stack
GenBracketMappings ==
    /\ pc = "start"
    /\ opening' = OpeningMap(SortedMarkables(pointing_chains), span)
    /\ closing' = ClosingMap(SortedMarkables(pointing_chains), span)
    /\ markable2chain' = Markable2Chain(pointing_chains)
    /\ ret_str' = <<>>
    /\ stack' = <<>>
    /\ token_index' = 1
    /\ pc' = "scan"
    /\ UNCHANGED <<tokens, span, pointing_chains, closing_markable_ids, pvars, ovars>>

\* loop body: token_id in opening and token_id in closing
ScanOpenClose ==
    /\ pc = "scan"
    /\ token_index <= Len(tokens)
    /\ LET token_id == tokens[token_index]
           pushed == stack \o opening[token_id]
           r == gen_closing_string(closing, markable2chain, token_id, pushed)
       IN  /\ InMap(opening, token_id)
           /\ InMap(closing, token_id)
           /\ stack' = r.stack
           /\ closing_markable_ids' = r.ids
           /\ IF r.ok
              THEN /\ ret_str' = ret_str \o OpeningStr(Len(opening[token_id]))
                                         \o <<Lex("tok", token_id)>> \o r.str
                                         \o <<Lex(" ", 0)>>
                   /\ token_index' = token_index + 1
                   /\ pc' = "scan"
              ELSE /\ pc' = "IndexError"
                   /\ UNCHANGED <<ret_str, token_index>>
    /\ UNCHANGED <<tokens, span, pointing_chains, opening, closing, markable2chain, pvars, ovars>>

\* loop body: token_id in opening, not in closing
ScanOpen ==
    /\ pc = "scan"
    /\ token_index <= Len(tokens)
    /\ LET token_id == tokens[token_index]
       IN  /\ InMap(opening, token_id)
           /\ ~InMap(closing, token_id)
           /\ stack' = stack \o opening[token_id]
           /\ ret_str' = ret_str \o OpeningStr(Len(opening[token_id]))
                                 \o <<Lex("tok", token_id), Lex(" ", 0)>>
    /\ token_index' = token_index + 1
    /\ UNCHANGED <<pc, tokens, span, pointing_chains, opening, closing,
                   markable2chain, closing_markable_ids, pvars, ovars>>

\* loop body: token_id in closing only
ScanClose ==
    /\ pc = "scan"
    /\ token_index <= Len(tokens)
    /\ LET token_id == tokens[token_index]
           r == gen_closing_string(closing, markable2chain, token_id, stack)
       IN  /\ ~InMap(opening, token_id)
           /\ InMap(closing, token_id)
           /\ stack' = r.stack
           /\ closing_markable_ids' = r.ids
           /\ IF r.ok
              THEN /\ ret_str' = ret_str \o <<Lex("tok", token_id)>> \o r.str
                                         \o <<Lex(" ", 0)>>
                   /\ token_index' = token_index + 1
                   /\ pc' = "scan"
              ELSE /\ pc' = "IndexError"
                   /\ UNCHANGED <<ret_str, token_index>>
    /\ UNCHANGED <<tokens, span, pointing_chains, opening, closing, markable2chain, pvars, ovars>>

\* loop body: token_id neither opens nor closes a markable
ScanPlain ==
    /\ pc = "scan"
    /\ token_index <= Len(tokens)
    /\ LET token_id == tokens[token_index]
       IN  /\ ~InMap(opening, token_id)
           /\ ~InMap(closing, token_id)
           /\ ret_str' = ret_str \o <<Lex("tok", token_id), Lex(" ", 0)>>
    /\ token_index' = token_index + 1
    /\ UNCHANGED <<pc, tokens, span, pointing_chains, opening, closing,
                   markable2chain, stack, closing_markable_ids, pvars, ovars>>

\* return ret_str
ReturnRetStr ==
    /\ pc = "scan"
    /\ token_index > Len(tokens)
    /\ pc' = "returned"
    /\ UNCHANGED <<tokens, bvars, pvars, ovars>>

NextBrackets ==
    \/ GenBracketMappings
    \/ ScanOpenClose
    \/ ScanOpen
    \/ ScanClose
    \/ ScanPlain
    \/ ReturnRetStr

SpecBrackets == InitBrackets /\ [][NextBrackets]_vars

(***************************************************************************)
(* Properties of gen_bracketed_output.                                     *)
(***************************************************************************)
Markables == DOMAIN span

\* every token a span names is in docgraph.tokens
SpanTokensInDoc(m) == Range(span[m]) \subseteq Range(tokens)

SpanPositions(m) == {PosIn(tokens, span[m][k]) : k \in 1..Len(span[m])}

\* first and last document position a markable covers
Lo(m) == CHOOSE p \in SpanPositions(m) : \A q \in SpanPositions(m) : p <= q

Hi(m) == CHOOSE p \in SpanPositions(m) : \A q \in SpanPositions(m) : q <= p

Crossing(a, b) == Lo(a) < Lo(b) /\ Lo(b) <= Hi(a) /\ Hi(a) < Hi(b)

\* all markables are over document tokens and no two of them cross
WellNested ==
    /\ \A m \in Markables : SpanTokensInDoc(m)
    /\ \A a, b \in Markables : ~Crossing(a, b)

\* the span attribute lists its first token first and its last token last
InDocOrder(m) ==
    /\ PosIn(tokens, span[m][1]) = Lo(m)
    /\ PosIn(tokens, Last(span[m])) = Hi(m)

CountKind(s, kind) == Cardinality({k \in 1..Len(s) : s[k].kind = kind})

\* number of '[' lexemes directly in front of position q of the output
RECURSIVE OpenRun(_, _)
OpenRun(s, q) ==
    IF q > 1 /\ s[q - 1].kind = "[" THEN 1 + OpenRun(s, q - 1) ELSE 0

\* the output holds, before position j, the open bracket of markable m: m's
\* opening token was written with at least as many '[' in front of it as m's
\* place in opening[token]
HasOpenBracketBefore(m, j) ==
    \E q \in 1..(j - 1) :
        /\ ret_str[q] = Lex("tok", spanstring2tokens(span[m])[1])
        /\ OpenRun(ret_str, q) >= PosIn(opening[ret_str[q].arg], m)
        /\ PosIn(opening[ret_str[q].arg], m) > 0

\* C1: on a document whose markables are well-nested and over document tokens,
\* every close group written so far names a chain of which a markable was
\* opened earlier in the output, and the returned string holds as many '['
\* as ']_{chain}' groups.
C1_BalancedOutput ==
    /\ \A j \in 1..Len(ret_str) :
          (ret_str[j].kind = "]_" /\ WellNested) =>
             \E m \in Markables :
                /\ markable2chain[m] = ret_str[j].arg
                /\ HasOpenBracketBefore(m, j)
    /\ (pc = "returned" /\ WellNested) =>
          CountKind(ret_str, "[") = CountKind(ret_str, "]_")

\* a returned string of a well-nested document in which two markables of
\* different chains open at the same token
C1_Witness ==
    /\ pc = "returned"
    /\ WellNested
    /\ \E t \in TokenIds : Len(opening[t]) = 2
    /\ Cardinality({markable2chain[m] : m \in Markables}) = 2
    /\ CountKind(ret_str, "]_") = 2

\* C2: on a well-nested document, the markables gen_closing_string pops at a
\* token are the markables listed in closing[token].
C2_PopsClosingMarkables ==
    (/\ WellNested
     /\ \A m \in Markables : InDocOrder(m)
     /\ pc \in {"scan", "returned"}
     /\ token_index > 1
     /\ InMap(closing, tokens[token_index - 1]))
    => Range(closing_markable_ids) = Range(closing[tokens[token_index - 1]])

\* C3: with a markable whose closing token precedes its opening token in
\* docgraph.tokens, gen_bracketed_output never returns a string, whichever
\* other markables are open (stated for the documents all of whose spans name
\* document tokens only).
C3_ReversedSpanRaises ==
    (/\ \A m \in Markables : SpanTokensInDoc(m)
     /\ \E m \in Markables :
        /\ PosIn(tokens, Last(spanstring2tokens(span[m])))
              < PosIn(tokens, spanstring2tokens(span[m])[1]))
    => pc # "returned"

\* C4: gen_bracketed_output does not return a string while markables are
\* still open on the stack.
C4_OpenStackRaises == pc = "returned" => stack = <<>>

\* C8: every markable over document tokens is registered in opening[] at the
\* token of its span with the smallest position and in closing[] at the token
\* with the largest position.
C8_AnchorsByDocumentOrder ==
    pc \in {"scan", "returned", "IndexError"} =>
        \A m \in Markables :
            SpanTokensInDoc(m) =>
                /\ m \in Range(opening[tokens[Lo(m)]])
                /\ m \in Range(closing[tokens[Hi(m)]])

(***************************************************************************)
(* ptb.py                                                                  *)
(*                                                                         *)
(* A tree of nltk is a record: isTree tells an nltk.tree.Tree from a       *)
(* unicode leaf, label is the Tree's label or the leaf's string, both as   *)
(* lists of code points; a leaf has no children.                           *)
(***************************************************************************)
Tree(label, children) == [isTree |-> TRUE, label |-> label, children |-> children]

Leaf(surface) == [isTree |-> FALSE, label |-> surface, children |-> <<>>]

\* the labels of the trees ("S") and the strings of the leaves ("a", "ä")
Labels == {<<83>>}

Surfaces == {<<97>>, <<228>>}

RECURSIVE TreesOfSize(_), ForestsOfSize(_)
\* the trees and leaves with n nodes
TreesOfSize(n) ==
    IF n = 1
    THEN {Leaf(s) : s \in Surfaces} \cup {Tree(l, <<>>) : l \in Labels}
    ELSE {Tree(l, f) : l \in Labels, f \in ForestsOfSize(n - 1)}

\* the non-empty lists of trees and leaves with n nodes in all
ForestsOfSize(n) ==
    UNION {{<<t>> \o f : t \in TreesOfSize(k),
                         f \in IF k = n THEN {<<>>} ELSE ForestsOfSize(n - k)}
           : k \in 1..n}

RECURSIVE DocumentsOfSize(_)
\* the lists of sentence trees with n nodes in all
DocumentsOfSize(n) ==
    IF n = 0 THEN {<<>>}
    ELSE UNION {{<<t>> \o d : t \in {x \in TreesOfSize(k) : x.isTree},
                              d \in DocumentsOfSize(n - k)}
                : k \in 1..n}

Documents == UNION {DocumentsOfSize(n) : n \in 0..MaxNodes}

Limits == {<<>>} \cup {<<n>> : n \in 0..MaxLimit}

\* the absent value of a node attribute
NoAttr == <<>>

\* EdgeTypes.spanning_relation, EdgeTypes.dominance_relation
spanning_relation == "spanning_relation"

dominance_relation == "dominance_relation"

\* self.root = 0
root == 0

\* self.ns+':root_node' with the default namespace: "ptb:root_node"
RootLabel == <<112, 116, 98, 58, 114, 111, 111, 116, 95, 110, 111, 100, 101>>

\* isinstance(node, nltk.tree.Tree)
IsTree(subtree) == subtree.isTree

\* one code point as UTF-8 (code points below 0x800)
EncodeCodePoint(c) ==
    IF c < 128 THEN <<c>> ELSE <<192 + (c \div 64), 128 + (c % 64)>>

\* unicode.encode('utf-8')
RECURSIVE encode_utf8(_)
encode_utf8(u) ==
    IF u = <<>> THEN <<>> ELSE EncodeCodePoint(Head(u)) \o encode_utf8(Tail(u))

\* get_nodelabel: node.label() of a Tree, node.encode('utf-8') of a leaf
get_nodelabel(n) == IF IsTree(n) THEN n.label ELSE encode_utf8(n.label)

\* `if limit:` is false for None and for 0
LimitIsTrue(lim) == lim # <<>> /\ lim[1] # 0

Min(a, b) == IF a <= b THEN a ELSE b

\* the sentences the constructor's loop iterates over:
\* parsed_sents_iter[:limit] if limit, else parsed_sents_iter
SentencesToAdd(doc, lim) ==
    IF LimitIsTrue(lim) THEN SubSeq(doc, 1, Min(lim[1], Len(doc))) ELSE doc

\* node_attrs of a subtree
NodeAttrs(subtree) ==
    IF IsTree(subtree)
    THEN [label |-> get_nodelabel(subtree), token |-> NoAttr]
    ELSE [label |-> get_nodelabel(subtree), token |-> get_nodelabel(subtree)]

\* every edge below a sentence root typed as a dominance edge
EdgeTypeAllDominance(subtree) == dominance_relation

\* edge_type of the edge to a subtree
EdgeType(subtree) ==
    IF IsTree(subtree) THEN dominance_relation ELSE spanning_relation

\* self.tokens.append for every subtree, token or not
TokensAfterAlways(toks, subtree, n) == Append(toks, n)

\* self.tokens after a subtree with id n was handled: a token is appended
TokensAfter(toks, subtree, n) ==
    IF IsTree(subtree) THEN toks ELSE Append(toks, n)

\* _add_sentence without its final increment
NodeIdAfterSentenceSame(n) == n

\* self._node_id += 1 at the end of _add_sentence
NodeIdAfterSentence(n) == n + 1

\* add_node(n, attr_dict=attrs): a new node, or an update of a node's attributes
AddNode(nd, n, attrs) == [k \in DOMAIN nd \cup {n} |-> IF k = n THEN attrs ELSE nd[k]]

\* the node an add_edge creates when its target is not in the graph yet
AddEdgeTarget(nd, n) ==
    IF n \in DOMAIN nd THEN nd
    ELSE AddNode(nd, n, [label |-> NoAttr, token |-> NoAttr])

\* self.node[n]['label'] = label
SetLabel(nd, n, label) == [nd EXCEPT ![n].label = label]

\* the variables of brackets.py while no document is rendered
IdleBrackets ==
    /\ span = <<>>
    /\ pointing_chains = <<>>
    /\ opening = <<>>
    /\ closing = <<>>
    /\ markable2chain = <<>>
    /\ ret_str = <<>>
    /\ stack = <<>>
    /\ token_index = 0
    /\ closing_markable_ids = <<>>

\* PTBDocumentGraph.__init__ up to the loop over the sentences
InitPTB ==
    /\ pc = "loop"
    /\ document \in Documents
    /\ limit \in Limits
    /\ node = (root :> [label |-> RootLabel, token |-> NoAttr])
    /\ edges = <<>>
    /\ sentences = <<>>
    /\ tokens = <<>>
    /\ node_id = 1
    /\ frames = <<>>
    /\ sent_index = 1
    /\ IdleBrackets
    /\ IdleOffsets

\* _add_sentence up to the first step of _parse_sentencetree(sentence)
AddSentence ==
    /\ pc = "loop"
    /\ sent_index <= Len(SentencesToAdd(document, limit))
    /\ LET sentence == SentencesToAdd(document, limit)[sent_index]
       IN  /\ sentences' = Append(sentences, node_id)
           /\ edges' = Append(edges, [src |-> root, tgt |-> node_id,
                                      edge_type |-> spanning_relation])
           /\ node' = SetLabel(AddEdgeTarget(node, node_id), node_id,
                               get_nodelabel(sentence))
           /\ frames' = <<[tree |-> sentence, root_node_id |-> node_id, child |-> 1]>>
    /\ pc' = "parse"
    /\ UNCHANGED <<tokens, document, limit, node_id, sent_index, bvars, ovars>>

\* _parse_sentencetree, loop body for a subtree that is a token
ParseToken ==
    /\ pc = "parse"
    /\ LET f == Last(frames)
       IN  /\ f.child <= Len(f.tree.children)
           /\ LET subtree == f.tree.children[f.child]
              IN  /\ ~IsTree(subtree)
                  /\ node_id' = node_id + 1
                  /\ tokens' = TokensAfter(tokens, subtree, node_id')
                  /\ node' = AddNode(node, node_id', NodeAttrs(subtree))
                  /\ edges' = Append(edges, [src |-> f.root_node_id, tgt |-> node_id',
                                             edge_type |-> EdgeType(subtree)])
                  /\ frames' = [frames EXCEPT ![Len(frames)].child = f.child + 1]
    /\ UNCHANGED <<pc, document, limit, sentences, sent_index, bvars, ovars>>

\* _parse_sentencetree, loop body for a subtree that is a Tree, up to the first
\* step of the recursive call
ParseSubtree ==
    /\ pc = "parse"
    /\ LET f == Last(frames)
       IN  /\ f.child <= Len(f.tree.children)
           /\ LET subtree == f.tree.children[f.child]
              IN  /\ IsTree(subtree)
                  /\ node_id' = node_id + 1
                  /\ tokens' = TokensAfter(tokens, subtree, node_id')
                  /\ node' = SetLabel(AddNode(node, node_id', NodeAttrs(subtree)),
                                      node_id', get_nodelabel(subtree))
                  /\ edges' = Append(edges, [src |-> f.root_node_id, tgt |-> node_id',
                                             edge_type |-> EdgeType(subtree)])
                  /\ frames' = Append([frames EXCEPT ![Len(frames)].child = f.child + 1],
                                      [tree |-> subtree, root_node_id |-> node_id',
                                       child |-> 1])
    /\ UNCHANGED <<pc, document, limit, sentences, sent_index, bvars, ovars>>

\* _parse_sentencetree returns to the call that made it
ReturnFromSubtree ==
    /\ pc = "parse"
    /\ Len(frames) > 1
    /\ Last(frames).child > Len(Last(frames).tree.children)
    /\ frames' = SubSeq(frames, 1, Len(frames) - 1)
    /\ UNCHANGED <<pc, tokens, document, limit, node, edges, sentences, node_id,
                   sent_index, bvars, ovars>>

\* _parse_sentencetree returns to _add_sentence, which advances self._node_id
EndSentence ==
    /\ pc = "parse"
    /\ Len(frames) = 1
    /\ Last(frames).child > Len(Last(frames).tree.children)
    /\ frames' = <<>>
    /\ node_id' = NodeIdAfterSentence(node_id)
    /\ sent_index' = sent_index + 1
    /\ pc' = "loop"
    /\ UNCHANGED <<tokens, document, limit, node, edges, sentences, bvars, ovars>>

\* the loop over the sentences ends: the graph is constructed
Constructed ==
    /\ pc = "loop"
    /\ sent_index > Len(SentencesToAdd(document, limit))
    /\ pc' = "done"
    /\ UNCHANGED <<tokens, pvars, bvars, ovars>>

NextPTB ==
    \/ AddSentence
    \/ ParseToken
    \/ ParseSubtree
    \/ ReturnFromSubtree
    \/ EndSentence
    \/ Constructed

SpecPTB == InitPTB /\ [][NextPTB]_vars

(***************************************************************************)
(* Properties of the constructed PTBDocumentGraph.                         *)
(***************************************************************************)
RECURSIVE TreeSize(_), SumSizes(_)
\* number of tree nodes and leaves of a tree / of a list of trees
TreeSize(t) == 1 + SumSizes(t.children)

SumSizes(f) == IF f = <<>> THEN 0 ELSE TreeSize(Head(f)) + SumSizes(Tail(f))

RECURSIVE LeavesOf(_), LeavesOfForest(_)
\* the leaf strings of a tree / of a list of trees, left to right
LeavesOf(t) == IF t.isTree THEN LeavesOfForest(t.children) ELSE <<t.label>>

LeavesOfForest(f) ==
    IF f = <<>> THEN <<>> ELSE LeavesOf(Head(f)) \o LeavesOfForest(Tail(f))

\* the string a UTF-8 byte list stands for (code points below 0x800)
RECURSIVE decode_utf8(_)
decode_utf8(b) ==
    IF b = <<>> THEN <<>>
    ELSE IF b[1] < 128 THEN <<b[1]>> \o decode_utf8(Tail(b))
    ELSE <<(b[1] - 192) * 64 + (b[2] - 128)>> \o decode_utf8(Tail(Tail(b)))

\* the parent links of the input trees, naming each tree node by its place in
\* the depth-first order: `last` is the number of the node visited last
RECURSIVE LinksOfForest(_, _, _)
LinksOfForest(parent, f, last) ==
    IF f = <<>> THEN {}
    ELSE {<<parent, last + 1>>}
         \cup LinksOfForest(last + 1, Head(f).children, last + 1)
         \cup LinksOfForest(parent, Tail(f), last + TreeSize(Head(f)))

\* sentences that were added completely
Ingested == SubSeq(document, 1, Len(sentences))

AtSentenceBoundary == pc \in {"loop", "done"}

TokenNodes == {n \in DOMAIN node : node[n].token # NoAttr}

\* C6: self.tokens holds one node id per leaf string of the ingested trees, in
\* the left-to-right order of the leaves across the sentences; each id carries
\* the leaf's string (UTF-8 encoded) as its token attribute, and the ids are
\* strictly increasing.
C6_TokensAreLeaves ==
    AtSentenceBoundary =>
        LET leaves == LeavesOfForest(Ingested)
        IN  /\ Len(tokens) = Len(leaves)
            /\ Range(tokens) = TokenNodes
            /\ \A k \in 1..Len(tokens) :
                  /\ tokens[k] \in DOMAIN node
                  /\ decode_utf8(node[tokens[k]].token) = leaves[k]
                  /\ k > 1 => tokens[k - 1] < tokens[k]

\* a graph of two sentences whose tokens differ, one of them not ASCII
C6_Witness ==
    /\ pc = "done"
    /\ Len(sentences) = 2
    /\ Len(tokens) >= 2
    /\ Last(tokens) > sentences[2]
    /\ \E a, b \in TokenNodes : Len(node[a].token) = 1 /\ Len(node[b].token) = 2

\* C7: with a limit n >= 0, exactly the first min(n, k) of the k sentences are
\* ingested, and nothing of a later sentence is created.
C7_LimitIngestsPrefix ==
    (pc = "done" /\ limit # <<>>) =>
        LET m == Min(limit[1], Len(document))
        IN  /\ Len(sentences) = m
            /\ Cardinality(DOMAIN node) = 1 + SumSizes(SubSeq(document, 1, m))

\* the state part of C9: the root is 0, every other id is positive and no
\* larger than the counter, every node id was given to one tree node only
\* (every allocation adds one node and one edge), and between sentences the
\* graph has one node per ingested tree node or leaf, besides the root
C9_UniqueIds ==
    /\ root \in DOMAIN node
    /\ \A n \in DOMAIN node \ {root} : n > 0 /\ n <= node_id
    /\ Cardinality(DOMAIN node) = 1 + Len(edges)
    /\ AtSentenceBoundary =>
          /\ \A n \in DOMAIN node : n < node_id
          /\ Cardinality(DOMAIN node) = 1 + SumSizes(Ingested)
          /\ Range(sentences) \cap Range(tokens) = {}
          /\ Cardinality(Range(sentences)) = Len(sentences)
          /\ Cardinality(Range(tokens)) = Len(tokens)

\* C9: the _node_id counter never decreases and no node id is assigned to two
\* tree nodes: the root is 0, all other nodes have pairwise distinct positive
\* ids, and the graph has 1 + (tree nodes and leaves ingested) nodes.
C9_MonotoneUniqueIds == [][node_id' >= node_id]_vars /\ []C9_UniqueIds

\* three sentences were ingested, one of them without children
C9_Witness ==
    /\ pc = "done"
    /\ Len(sentences) = 3
    /\ \E k \in 1..3 : document[k].children = <<>>
    /\ Len(tokens) >= 1
    /\ Cardinality(DOMAIN node) = 1 + SumSizes(document)

TokenLists == {<<>>} \cup InjSeqs(TokenIds, MaxTokens)

SegmentTokenLists == UNION {[1..n -> TokenIds] : n \in 0..MaxSegLen}

\* d[key] = value on a dict held as a function
DictSet(d, key, value) ==
    [k \in DOMAIN d \cup {key} |-> IF k = key THEN value ELSE d[k]]

\* min(list) / max(list) of Python on a non-empty list
RECURSIVE PyMin(_)
PyMin(s) ==
    IF Len(s) = 1 THEN s[1]
    ELSE LET m == PyMin(Tail(s)) IN IF s[1] <= m THEN s[1] ELSE m

RECURSIVE PyMax(_)
PyMax(s) ==
    IF Len(s) = 1 THEN s[1]
    ELSE LET m == PyMax(Tail(s)) IN IF s[1] >= m THEN s[1] ELSE m

\* token_indices = [token_map[token_id] for token_id in segment_token_list]
TokenIndices(seg, token_map) == [k \in 1..Len(seg) |-> token_map[seg[k]]]

\* the indices of the first and the last element of the list as given
FirstAndLastOffsets(seg, token_map) ==
    <<TokenIndices(seg, token_map)[1], Last(TokenIndices(seg, token_map))>>

\* get_segment_token_offsets on a non-empty list of mapped ids
get_segment_token_offsets(seg, token_map) ==
    <<PyMin(TokenIndices(seg, token_map)), PyMax(TokenIndices(seg, token_map))>>

\* a docgraph with its tokens, and a segment's token list
InitOffsets ==
    /\ pc = "mapper"
    /\ tokens \in TokenLists
    /\ segment_token_list \in SegmentTokenLists
    /\ id2index = <<>>
    /\ index2id = <<>>
    /\ map_index = 0
    /\ offsets = <<>>
    /\ IdleBrackets
    /\ IdlePTB

\* TokenMapper.__init__: one round of the loop over enumerate(docgraph.tokens)
MapToken ==
    /\ pc = "mapper"
    /\ map_index < Len(tokens)
    /\ id2index' = DictSet(id2index, tokens[map_index + 1], map_index)
    /\ index2id' = DictSet(index2id, map_index, tokens[map_index + 1])
    /\ map_index' = map_index + 1
    /\ UNCHANGED <<pc, tokens, segment_token_list, offsets, bvars, pvars>>

\* TokenMapper.__init__ returns
MapperBuilt ==
    /\ pc = "mapper"
    /\ map_index = Len(tokens)
    /\ pc' = "mapped"
    /\ UNCHANGED <<tokens, ovars, bvars, pvars>>

\* get_segment_token_offsets(segment_token_list, id2index) returns
GetSegmentTokenOffsets ==
    /\ pc = "mapped"
    /\ segment_token_list # <<>>
    /\ Range(segment_token_list) \subseteq DOMAIN id2index
    /\ offsets' = get_segment_token_offsets(segment_token_list, id2index)
    /\ pc' = "offsets"
    /\ UNCHANGED <<tokens, segment_token_list, id2index, index2id, map_index,
                   bvars, pvars>>

\* token_map[token_id] of an id that is not a key raises KeyError
GetSegmentTokenOffsetsKeyError ==
    /\ pc = "mapped"
    /\ ~(Range(segment_token_list) \subseteq DOMAIN id2index)
    /\ pc' = "KeyError"
    /\ UNCHANGED <<tokens, ovars, bvars, pvars>>

\* min([]) raises ValueError
GetSegmentTokenOffsetsValueError ==
    /\ pc = "mapped"
    /\ segment_token_list = <<>>
    /\ pc' = "ValueError"
    /\ UNCHANGED <<tokens, ovars, bvars, pvars>>

NextOffsets ==
    \/ MapToken
    \/ MapperBuilt
    \/ GetSegmentTokenOffsets
    \/ GetSegmentTokenOffsetsKeyError
    \/ GetSegmentTokenOffsetsValueError

SpecOffsets == InitOffsets /\ [][NextOffsets]_vars

\* the orderings of a list
PermutationsOf(s) ==
    {[k \in 1..Len(s) |-> s[p[k]]] : p \in Permutations(1..Len(s))}

\* 0-based positions in docgraph.tokens of the tokens of a list
PositionsOf(seg) == {PosIn(tokens, seg[k]) - 1 : k \in 1..Len(seg)}

\* C5: for a non-empty list of ids that are keys of the token map,
\* get_segment_token_offsets returns (min position, max position) of those
\* tokens, and returns the same for every permutation of the list.
C5_OffsetsAreMinMax ==
    pc = "offsets" =>
        /\ \A p \in PositionsOf(segment_token_list) :
              offsets[1] <= p /\ p <= offsets[2]
        /\ offsets[1] \in PositionsOf(segment_token_list)
        /\ offsets[2] \in PositionsOf(segment_token_list)
        /\ \A perm \in PermutationsOf(segment_token_list) :
              get_segment_token_offsets(perm, id2index) = offsets

\* offsets of a list that names its tokens against the document order, in a
\* document whose ids are not in order either
C5_Witness ==
    /\ pc = "offsets"
    /\ Len(segment_token_list) >= 2
    /\ PosIn(tokens, segment_token_list[1]) > PosIn(tokens, Last(segment_token_list))
    /\ \E k \in 2..Len(tokens) : tokens[k] < tokens[k - 1]
    /\ offsets[1] < offsets[2]

(***************************************************************************)
(* gen_bracketed_output on documents of MaxTokens + 1 tokens whose         *)
(* markables all open at or before the token they close at, nested or      *)
(* crossing.                                                               *)
(***************************************************************************)
ScanTokens == [k \in 1..(MaxTokens + 1) |-> k]

\* span attributes over the document's tokens whose first token is not after
\* their last token
ForwardSpans ==
    {s \in InjSeqs(Range(ScanTokens), MaxTokens + 1) : s[1] <= Last(s)}

InitScan ==
    /\ pc = "start"
    /\ tokens = ScanTokens
    /\ \E m \in 0..MaxMarkables :
          /\ span \in [1..m -> ForwardSpans]
          /\ pointing_chains \in ChainLists(m)
    /\ opening = [t \in TokenIds |-> <<>>]
    /\ closing = [t \in TokenIds |-> <<>>]
    /\ markable2chain = <<>>
    /\ ret_str = <<>>
    /\ stack = <<>>
    /\ token_index = 0
    /\ closing_markable_ids = <<>>
    /\ IdlePTB
    /\ IdleOffsets

SpecScan == InitScan /\ [][NextBrackets]_vars

\* every markable's opening token is at or before its closing token in
\* docgraph.tokens, and both are in docgraph.tokens
OpensBeforeCloses ==
    \A m \in Markables :
        /\ PosIn(tokens, spanstring2tokens(span[m])[1]) >= 1
        /\ PosIn(tokens, spanstring2tokens(span[m])[1])
              <= PosIn(tokens, Last(spanstring2tokens(span[m])))

\* markables whose opening / closing token is among the tokens scanned so far
OpenedSoFar ==
    {m \in Markables : PosIn(tokens, spanstring2tokens(span[m])[1]) < token_index}

ClosedSoFar ==
    {m \in Markables : PosIn(tokens, Last(spanstring2tokens(span[m]))) < token_index}

\* C11: if every markable opens at or before the token it closes at, both in
\* docgraph.tokens, then after each token the stack holds (markables opened so
\* far) - (markables closed so far) entries, no pop is attempted on an empty
\* stack, and the stack is empty after the last token; for crossing spans as
\* for nested ones.
C11_StackCountsOpenMarkables ==
    OpensBeforeCloses =>
        /\ pc # "IndexError"
        /\ pc \in {"scan", "returned"} =>
              Len(stack) = Cardinality(OpenedSoFar) - Cardinality(ClosedSoFar)
        /\ pc = "returned" => stack = <<>>

\* the scan of a document with two crossing markables has ended
C11_Witness ==
    /\ pc = "returned"
    /\ OpensBeforeCloses
    /\ \E a, b \in Markables : Crossing(a, b)
    /\ CountKind(ret_str, "]_") = 2
    /\ stack = <<>>

====
